---- MODULE Spec2Model ----
(***************************************************************************)
(* Model of src/import.py: the orb monitor.  One controller (the Tk main   *)
(* thread: button, radio buttons, entry field, `after` callbacks) and the  *)
(* sampling threads that start_monitoring() spawns.  Every shared global   *)
(* of the module is a variable; every thread has a program position and   *)
(* its locals.  A step of a thread is the code between two accesses of     *)
(* shared state that another thread can interleave with.                   *)
(*                                                                         *)
(* Numbers: a template-matching confidence is kept in hundredths (0.7 is   *)
(* 70); a fill is kept as the pair pixel_count / TotalPixels and the       *)
(* comparisons of line 162 and 164 are cross-multiplied, so that           *)
(* percent > 0.1 is pixel_count * 1000 > TotalPixels.                      *)
(***************************************************************************)
EXTENDS Integers, Sequences, FiniteSets, TLC

VARIABLES
    monitoring,          \* line 23
    monitor_option,      \* line 24
    monitor_thread,      \* line 25: the thread of the last start, 0 for None
    color_threshold,     \* line 26
    protection_blocked,  \* line 27
    trigger_key,         \* line 28
    entry,               \* threshold_entry's text, a sequence of characters
    btn_text,            \* toggle_btn's text
    status,              \* status_label's text and colour
    pending,             \* Tk's queue of `after(0, ...)` callbacks
    ctl,                 \* position of the main thread, and the handler it runs
    pc,                  \* position of each sampling thread
    template,            \* local of monitor_function, line 127/130
    mask,                \* local of monitor_function, line 149/153
    max_val,             \* local of monitor_function, line 135
    pixel_count,         \* local of monitor_function, line 155
    saw_blocked,         \* what line 161 read
    saw_threshold,       \* what line 162 read
    fresh,               \* history: monitor_thread has not finished a cycle yet
    presses,             \* history: pyautogui.press calls of the current run
    latches,             \* history: protection_blocked = True writes of the run
    pressed_key,         \* history: the key of the last press
    key_at_start,        \* history: trigger_key when the run began
    since_stop,          \* history: stop() issued and no start() since
    inflight,            \* history: threads that were inside a cycle at stop()
    after_halt,          \* history: the current run was started from Halted
    tracing,             \* history: the logs below are kept
    cmds,                \* history: controller commands issued
    inputs,              \* history: what each cycle of the run measured
    outs                 \* history: the statuses the sampling threads dispatched

code == <<monitoring, monitor_option, monitor_thread, color_threshold,
          protection_blocked, trigger_key>>
gui == <<entry, btn_text, status, pending>>
locals == <<template, mask, max_val, pixel_count, saw_blocked, saw_threshold>>
history == <<fresh, presses, latches, pressed_key, key_at_start, since_stop,
             inflight, after_halt>>
logs == <<tracing, cmds, inputs, outs>>
vars == <<code, gui, ctl, pc, locals, history, logs>>

----------------------------------------------------------------------------
(* Bounds of the model *)

MaxThreads == 2
MaxPending == 1
MaxPresses == 2
MaxCycles == 3
TotalPixels == 2000

(* Program constants *)

template_threshold == 70
default_threshold == 10

Threads == 1..MaxThreads
Confidences == {69, 70}
PixelCounts == {2, 3, 200, 1000}
Options == {"mana", "life"}
Keys == {"esc", "f9"}
EntryTexts == {<<"1", "0">>, <<"5", "0">>, <<"x">>}
TypedTexts == EntryTexts \cup {<<>>, <<" ", "5", "0">>, <<"-", "5">>,
                               <<"1", "_", "0">>, <<"1", ".", "5">>, <<"5", " ", "0">>}

----------------------------------------------------------------------------
(* int(threshold_entry.get()), line 191 *)

DigitValue(c) ==
    CASE c = "0" -> 0 [] c = "1" -> 1 [] c = "2" -> 2 [] c = "3" -> 3
      [] c = "4" -> 4 [] c = "5" -> 5 [] c = "6" -> 6 [] c = "7" -> 7
      [] c = "8" -> 8 [] c = "9" -> 9 [] OTHER -> -1

IsDigits(s) == Len(s) > 0 /\ \A i \in 1..Len(s) : DigitValue(s[i]) >= 0

RECURSIVE DigitsValue(_)
DigitsValue(s) ==
    IF Len(s) = 0 THEN 0
    ELSE 10 * DigitsValue(SubSeq(s, 1, Len(s) - 1)) + DigitValue(s[Len(s)])

Signed(s) == Len(s) > 0 /\ s[1] \in {"-", "+"}

\* int() ignores the blanks around the number
RECURSIVE LStrip(_)
LStrip(s) == IF Len(s) > 0 /\ Head(s) = " " THEN LStrip(Tail(s)) ELSE s

RECURSIVE RStrip(_)
RStrip(s) ==
    IF Len(s) > 0 /\ s[Len(s)] = " " THEN RStrip(SubSeq(s, 1, Len(s) - 1)) ELSE s

Strip(s) == RStrip(LStrip(s))

\* the text after the blanks and the sign
Numeral(s) == IF Signed(Strip(s)) THEN Tail(Strip(s)) ELSE Strip(s)

IsDigit(c) == DigitValue(c) >= 0

\* int() accepts one underscore between two digits
IsGrouped(u) ==
    /\ Len(u) > 0
    /\ \A i \in 1..Len(u) :
         \/ IsDigit(u[i])
         \/ /\ u[i] = "_"
            /\ 1 < i
            /\ i < Len(u)
            /\ IsDigit(u[i - 1])
            /\ IsDigit(u[i + 1])

\* whether int(s) returns; otherwise it raises ValueError
IsIntText(s) == IsGrouped(Numeral(s))

IntOf(s) ==
    (IF Signed(Strip(s)) /\ Strip(s)[1] = "-" THEN -1 ELSE 1)
        * DigitsValue(SelectSeq(Numeral(s), IsDigit))

----------------------------------------------------------------------------
(* The decisions of one cycle *)

\* line 137
Matched(conf) == conf >= template_threshold

\* line 149 / 151-153
MaskFor(option) == IF option = "mana" THEN "blue" ELSE "red_or_green"

\* the branch taken were the floor of line 164 `percent >= 0.1`
DecisionFloorIncluded(blocked, px, thr) ==
    IF blocked THEN "blocked"
    ELSE IF px * 100 > thr * TotalPixels THEN "protected"
    ELSE IF px * 1000 >= TotalPixels THEN "trigger"
    ELSE "not_detected"

\* lines 161-176: the branch taken
Decision(blocked, px, thr) ==
    IF blocked THEN "blocked"
    ELSE IF px * 100 > thr * TotalPixels THEN "protected"
    ELSE IF px * 1000 > TotalPixels THEN "trigger"
    ELSE "not_detected"

Msg(text, fg) == [widget |-> "status", text |-> text, fg |-> fg]

\* the statuses of lines 163 and 174 exchanged
StatusOfSwapped(d) ==
    CASE d = "protected" -> Msg("Orbs not detected", "blue")
      [] d = "trigger" -> Msg("UNPROTECTED", "red")
      [] d = "blocked" -> Msg("UNPROTECTED", "red")
      [] OTHER -> Msg("PROTECTED", "green")

\* lines 163, 165, 174, 176
StatusOf(d) ==
    CASE d = "protected" -> Msg("PROTECTED", "green")
      [] d = "trigger" -> Msg("UNPROTECTED", "red")
      [] d = "blocked" -> Msg("UNPROTECTED", "red")
      [] OTHER -> Msg("Orbs not detected", "blue")

\* line 170
ButtonReset == [widget |-> "button", text |-> "Start", fg |-> "none"]

\* line 78: widget.after(0, callback)
After(q, cb) == Append(q, cb)

CanPost == Len(pending) < MaxPending

InLoop == {"while", "capture", "match", "crop", "decide", "press", "latch",
           "halt", "reset", "sleep"}
InCycle == InLoop \ {"while", "sleep"}
Dead == {"none", "terminated", "returned", "crashed"}

Bump(n) == IF n < MaxPresses THEN n + 1 ELSE n

Log(seq, x) == IF tracing /\ Len(seq) < MaxCycles THEN Append(seq, x) ELSE seq

----------------------------------------------------------------------------
\* lines 23-34 and 244-279: the globals and the widgets before the first click
Boot(traced) ==
    /\ monitoring = FALSE
    /\ monitor_option = "mana"
    /\ monitor_thread = 0
    /\ color_threshold = default_threshold
    /\ protection_blocked = FALSE
    /\ trigger_key = "esc"
    /\ entry = <<"1", "0">>
    /\ btn_text = "Start"
    /\ status = [text |-> "Monitoring stopped", fg |-> "default"]
    /\ pending = <<>>
    /\ ctl = [at |-> "idle", by |-> "none"]
    /\ pc = [t \in Threads |-> "none"]
    /\ template = [t \in Threads |-> "none"]
    /\ mask = [t \in Threads |-> "none"]
    /\ max_val = [t \in Threads |-> 0]
    /\ pixel_count = [t \in Threads |-> 0]
    /\ saw_blocked = [t \in Threads |-> FALSE]
    /\ saw_threshold = [t \in Threads |-> 0]
    /\ fresh = FALSE
    /\ presses = 0
    /\ latches = 0
    /\ pressed_key = "none"
    /\ key_at_start = "none"
    /\ since_stop = FALSE
    /\ inflight = {}
    /\ after_halt = FALSE
    /\ tracing = traced
    /\ cmds = 0
    /\ inputs = <<>>
    /\ outs = <<>>

Init == Boot(FALSE)

----------------------------------------------------------------------------
(* The sampling thread: monitor_function, lines 80-184.  A local is kept   *)
(* from the step that assigns it to the last step of the cycle that can    *)
(* depend on it.                                                           *)

\* the process has not ended (line 283)
Running == ctl.at # "exited"

ClearLocals(t) ==
    /\ template' = [template EXCEPT ![t] = "none"]
    /\ mask' = [mask EXCEPT ![t] = "none"]
    /\ max_val' = [max_val EXCEPT ![t] = 0]
    /\ pixel_count' = [pixel_count EXCEPT ![t] = 0]
    /\ saw_blocked' = [saw_blocked EXCEPT ![t] = FALSE]
    /\ saw_threshold' = [saw_threshold EXCEPT ![t] = 0]

\* the thread of the last start ends its first cycle, or ends
Seasoned(t) == fresh' = (fresh /\ t # monitor_thread)

\* lines 98-117: the templates load, or the function returns after a print
T_Load(t) ==
    /\ pc[t] = "load"
    /\ Running
    /\ \E loaded \in BOOLEAN :
         IF loaded
         THEN /\ pc' = [pc EXCEPT ![t] = "while"]
              /\ UNCHANGED <<fresh, inputs>>
         ELSE /\ pc' = [pc EXCEPT ![t] = "returned"]
              /\ Seasoned(t)
              /\ inputs' = Log(inputs, "load_failed")
    /\ UNCHANGED <<code, gui, ctl, locals, presses, latches, pressed_key, key_at_start,
                   since_stop, inflight, after_halt, tracing, cmds, outs>>

\* the loop test were it `while True`
T_WhileTrue(t) ==
    /\ pc[t] = "while"
    /\ Running
    /\ tracing => Len(inputs) < MaxCycles
    /\ pc' = [pc EXCEPT ![t] = "capture"]
    /\ inflight' = inflight \ {t}
    /\ UNCHANGED <<code, gui, ctl, locals, fresh, presses, latches,
                   pressed_key, key_at_start, since_stop, after_halt, logs>>

\* line 119, and line 184 when the flag is down
T_While(t) ==
    /\ pc[t] = "while"
    /\ Running
    /\ tracing /\ monitoring => Len(inputs) < MaxCycles
    /\ IF monitoring
       THEN /\ pc' = [pc EXCEPT ![t] = "capture"]
            /\ UNCHANGED fresh
       ELSE /\ pc' = [pc EXCEPT ![t] = "terminated"]
            /\ Seasoned(t)
    /\ inflight' = inflight \ {t}
    /\ UNCHANGED <<code, gui, ctl, locals, presses, latches, pressed_key, key_at_start,
                   since_stop, after_halt, logs>>

\* the thread dies of the exception sct.grab raised (lines 121, 141)
Crash(t) ==
    /\ pc' = [pc EXCEPT ![t] = "crashed"]
    /\ Seasoned(t)
    /\ inflight' = inflight \ {t}
    /\ inputs' = Log(inputs, "capture_failed")
    /\ ClearLocals(t)

\* lines 121-131: the screenshot, and the template of the option read now
T_Capture(t) ==
    /\ pc[t] = "capture"
    /\ Running
    /\ \E grabbed \in BOOLEAN :
         IF grabbed
         THEN /\ pc' = [pc EXCEPT ![t] = "match"]
              /\ template' = [template EXCEPT ![t] = monitor_option]
              /\ UNCHANGED <<mask, max_val, pixel_count, saw_blocked,
                             saw_threshold, fresh, inflight, inputs>>
         ELSE Crash(t)
    /\ UNCHANGED <<code, gui, ctl, presses, latches, pressed_key, key_at_start, since_stop,
                   after_halt, tracing, cmds, outs>>

\* lines 134-137, and 179-180 when the template is not found
T_Match(t) ==
    /\ pc[t] = "match"
    /\ Running
    /\ \E conf \in Confidences :
         IF Matched(conf)
         THEN /\ pc' = [pc EXCEPT ![t] = "crop"]
              /\ max_val' = [max_val EXCEPT ![t] = conf]
              /\ UNCHANGED <<template, mask, pixel_count, saw_blocked,
                             saw_threshold, pending, inputs, outs>>
         ELSE /\ CanPost
              /\ pc' = [pc EXCEPT ![t] = "sleep"]
              /\ pending' = After(pending, StatusOf("not_detected"))
              /\ inputs' = Log(inputs, "miss")
              /\ outs' = Log(outs, StatusOf("not_detected").text)
              /\ ClearLocals(t)
    /\ UNCHANGED <<code, entry, btn_text, status, ctl, history, tracing, cmds>>

\* lines 138-157: the orb's region, the mask of the option read now, the count
T_Crop(t) ==
    /\ pc[t] = "crop"
    /\ Running
    /\ \E grabbed \in BOOLEAN :
         IF grabbed
         THEN /\ pc' = [pc EXCEPT ![t] = "decide"]
              /\ mask' = [mask EXCEPT ![t] = MaskFor(monitor_option)]
              /\ \E n \in PixelCounts :
                   pixel_count' = [pixel_count EXCEPT ![t] = n]
              /\ UNCHANGED <<template, max_val, saw_blocked, saw_threshold,
                             fresh, inflight, inputs>>
         ELSE Crash(t)
    /\ UNCHANGED <<code, gui, ctl, presses, latches, pressed_key, key_at_start, since_stop,
                   after_halt, tracing, cmds, outs>>

\* lines 161-165 and 172-176: the latch and the threshold are read and the
\* status is dispatched; only the trigger branch goes on to line 166
T_Decide(t) ==
    /\ pc[t] = "decide"
    /\ Running
    /\ CanPost
    /\ LET d == Decision(protection_blocked, pixel_count[t], color_threshold)
       IN /\ pending' = After(pending, StatusOf(d))
          /\ inputs' = Log(inputs, Decision(FALSE, pixel_count[t], color_threshold))
          /\ outs' = Log(outs, StatusOf(d).text)
          /\ IF d = "trigger"
             THEN /\ pc' = [pc EXCEPT ![t] = "press"]
                  /\ saw_blocked' = [saw_blocked EXCEPT ![t] = protection_blocked]
                  /\ saw_threshold' = [saw_threshold EXCEPT ![t] = color_threshold]
                  /\ template' = [template EXCEPT ![t] = "none"]
                  /\ mask' = [mask EXCEPT ![t] = "none"]
                  /\ UNCHANGED <<max_val, pixel_count>>
             ELSE /\ pc' = [pc EXCEPT ![t] = "sleep"]
                  /\ ClearLocals(t)
    /\ UNCHANGED <<code, entry, btn_text, status, ctl, history, tracing, cmds>>

\* lines 166-167 were the key the one fixed at line 28
T_PressDefault(t) ==
    /\ pc[t] = "press"
    /\ Running
    /\ pc' = [pc EXCEPT ![t] = "latch"]
    /\ presses' = Bump(presses)
    /\ pressed_key' = "esc"
    /\ UNCHANGED <<code, gui, ctl, locals, fresh, latches, key_at_start,
                   since_stop, inflight, after_halt, logs>>

\* lines 166-167: pyautogui.press(trigger_key)
T_Press(t) ==
    /\ pc[t] = "press"
    /\ Running
    /\ pc' = [pc EXCEPT ![t] = "latch"]
    /\ presses' = Bump(presses)
    /\ pressed_key' = trigger_key
    /\ UNCHANGED <<code, gui, ctl, locals, fresh, latches, key_at_start,
                   since_stop, inflight, after_halt, logs>>

\* line 168
T_Latch(t) ==
    /\ pc[t] = "latch"
    /\ Running
    /\ pc' = [pc EXCEPT ![t] = "halt"]
    /\ protection_blocked' = TRUE
    /\ latches' = Bump(latches)
    /\ UNCHANGED <<monitoring, monitor_option, monitor_thread, color_threshold,
                   trigger_key, gui, ctl, locals, fresh, presses, pressed_key, key_at_start,
                   since_stop, inflight, after_halt, logs>>

\* line 169 were it missing
T_HaltKeepsFlag(t) ==
    /\ pc[t] = "halt"
    /\ Running
    /\ pc' = [pc EXCEPT ![t] = "reset"]
    /\ UNCHANGED <<code, gui, ctl, locals, history, logs>>

\* line 169
T_Halt(t) ==
    /\ pc[t] = "halt"
    /\ Running
    /\ pc' = [pc EXCEPT ![t] = "reset"]
    /\ monitoring' = FALSE
    /\ UNCHANGED <<monitor_option, monitor_thread, color_threshold,
                   protection_blocked, trigger_key, gui, ctl, locals, history,
                   logs>>

\* lines 170-171 and 184: the button's reset is posted, the loop is left
T_Reset(t) ==
    /\ pc[t] = "reset"
    /\ Running
    /\ CanPost
    /\ pc' = [pc EXCEPT ![t] = "terminated"]
    /\ pending' = After(pending, ButtonReset)
    /\ Seasoned(t)
    /\ inflight' = inflight \ {t}
    /\ ClearLocals(t)
    /\ UNCHANGED <<code, entry, btn_text, status, ctl, presses, latches,
                   pressed_key, key_at_start, since_stop, after_halt, logs>>

\* line 182 were it followed by monitoring = False
T_SleepLowersFlag(t) ==
    /\ pc[t] = "sleep"
    /\ Running
    /\ pc' = [pc EXCEPT ![t] = "while"]
    /\ monitoring' = FALSE
    /\ Seasoned(t)
    /\ UNCHANGED <<monitor_option, monitor_thread, color_threshold,
                   protection_blocked, trigger_key, gui, ctl, locals, presses,
                   latches, pressed_key, key_at_start, since_stop, inflight,
                   after_halt, logs>>

\* line 182
T_Sleep(t) ==
    /\ pc[t] = "sleep"
    /\ Running
    /\ pc' = [pc EXCEPT ![t] = "while"]
    /\ Seasoned(t)
    /\ UNCHANGED <<code, gui, ctl, locals, presses, latches, pressed_key, key_at_start,
                   since_stop, inflight, after_halt, logs>>

----------------------------------------------------------------------------
(* The controller: the Tk main thread, lines 186-239 and 282-283 *)

Idle == ctl.at = "idle"

At(place) == [ctl EXCEPT !.at = place]

Return == [at |-> "idle", by |-> "none"]

\* the slot of the next thread: threading.Thread(...), line 198
FreeSlots == {t \in Threads : pc[t] \in Dead}
NewThread == CHOOSE t \in FreeSlots : \A u \in FreeSlots : t <= u

\* the controller may post one callback more than the sampling threads
CanPostMain == Len(pending) <= MaxPending

Command == cmds' = IF tracing THEN Bump(cmds) ELSE cmds

\* line 213: the button's handler reads the flag and takes a branch
Toggle_Click ==
    /\ Idle
    /\ IF monitoring THEN CanPostMain ELSE FreeSlots # {}
    /\ ctl' = [at |-> IF monitoring THEN "stop" ELSE "check", by |-> "toggle"]
    /\ Command
    /\ UNCHANGED <<code, gui, pc, locals, history, tracing, inputs, outs>>

\* start_monitoring() called by the control surface itself
Start_Call ==
    /\ Idle
    /\ FreeSlots # {}
    /\ ctl' = [at |-> "check", by |-> "direct"]
    /\ Command
    /\ UNCHANGED <<code, gui, pc, locals, history, tracing, inputs, outs>>

\* stop_monitoring() called by the control surface itself
Stop_Call ==
    /\ Idle
    /\ ctl' = [at |-> "stop", by |-> "direct"]
    /\ Command
    /\ UNCHANGED <<code, gui, pc, locals, history, tracing, inputs, outs>>

\* lines 189-195 without the guard of line 189
C_CheckUnguarded ==
    /\ ctl.at = "check"
    /\ ctl' = At("unlatch")
    /\ IF IsIntText(entry)
       THEN /\ color_threshold' = IntOf(entry)
            /\ UNCHANGED entry
       ELSE /\ color_threshold' = default_threshold
            /\ entry' = <<"1", "0">>
    /\ UNCHANGED <<monitoring, monitor_option, monitor_thread,
                   protection_blocked, trigger_key, btn_text, status, pending,
                   pc, locals, history, logs>>

\* lines 189-195 without the rewrite of lines 194-195
C_CheckKeepsEntry ==
    /\ ctl.at = "check"
    /\ IF monitoring
       THEN /\ ctl' = IF ctl.by = "toggle" THEN At("label") ELSE Return
            /\ UNCHANGED color_threshold
       ELSE /\ ctl' = At("unlatch")
            /\ color_threshold' =
                 IF IsIntText(entry) THEN IntOf(entry) ELSE default_threshold
    /\ UNCHANGED <<monitoring, monitor_option, monitor_thread,
                   protection_blocked, trigger_key, gui, pc, locals, history,
                   logs>>

\* lines 189-195: the guard, then the threshold from the entry field
C_Check ==
    /\ ctl.at = "check"
    /\ IF monitoring
       THEN /\ ctl' = IF ctl.by = "toggle" THEN At("label") ELSE Return
            /\ UNCHANGED <<color_threshold, entry>>
       ELSE /\ ctl' = At("unlatch")
            /\ IF IsIntText(entry)
               THEN /\ color_threshold' = IntOf(entry)
                    /\ UNCHANGED entry
               ELSE /\ color_threshold' = default_threshold
                    /\ entry' = <<"1", "0">>
    /\ UNCHANGED <<monitoring, monitor_option, monitor_thread,
                   protection_blocked, trigger_key, btn_text, status, pending,
                   pc, locals, history, logs>>

\* line 196
C_Unlatch ==
    /\ ctl.at = "unlatch"
    /\ ctl' = At("raise")
    /\ protection_blocked' = FALSE
    /\ after_halt' = (protection_blocked /\ ~monitoring)
    /\ UNCHANGED <<monitoring, monitor_option, monitor_thread, color_threshold,
                   trigger_key, gui, pc, locals, fresh, presses, latches,
                   pressed_key, key_at_start, since_stop, inflight, logs>>

\* line 197: a run begins
C_Raise ==
    /\ ctl.at = "raise"
    /\ ctl' = At("spawn")
    /\ monitoring' = TRUE
    /\ presses' = 0
    /\ latches' = 0
    /\ pressed_key' = "none"
    /\ key_at_start' = trigger_key
    /\ since_stop' = FALSE
    /\ inflight' = {}
    /\ UNCHANGED <<monitor_option, monitor_thread, color_threshold,
                   protection_blocked, trigger_key, gui, pc, locals, fresh,
                   after_halt, logs>>

\* lines 198-199
C_Spawn ==
    /\ ctl.at = "spawn"
    /\ ctl' = IF ctl.by = "toggle" THEN At("label") ELSE Return
    /\ monitor_thread' = NewThread
    /\ pc' = [pc EXCEPT ![NewThread] = "load"]
    /\ fresh' = TRUE
    /\ UNCHANGED <<monitoring, monitor_option, color_threshold,
                   protection_blocked, trigger_key, gui, locals, presses,
                   latches, pressed_key, key_at_start, since_stop, inflight, after_halt, logs>>

\* line 219
C_Label ==
    /\ ctl.at = "label"
    /\ ctl' = Return
    /\ btn_text' = "Stop"
    /\ UNCHANGED <<code, entry, status, pending, pc, locals, history, logs>>

\* line 204, and lines 215-216 when the button called it
C_Stop ==
    /\ ctl.at = "stop"
    /\ ctl' = Return
    /\ monitoring' = FALSE
    /\ since_stop' = TRUE
    /\ inflight' = {t \in Threads : pc[t] \in InCycle}
    /\ IF ctl.by = "toggle"
       THEN /\ btn_text' = "Start"
            /\ pending' = After(pending, Msg("Monitoring stopped", "black"))
       ELSE UNCHANGED <<btn_text, pending>>
    /\ UNCHANGED <<monitor_option, monitor_thread, color_threshold,
                   protection_blocked, trigger_key, entry, status, pc, locals,
                   fresh, presses, latches, pressed_key, key_at_start, after_halt, logs>>

\* lines 221-229 (a click on the option already chosen changes nothing)
SetOption(o) ==
    /\ Idle
    /\ o # monitor_option
    /\ monitor_option' = o
    /\ UNCHANGED <<monitoring, monitor_thread, color_threshold,
                   protection_blocked, trigger_key, gui, ctl, pc, locals,
                   history, logs>>

\* lines 231-239
SetTrigger(k) ==
    /\ Idle
    /\ k # trigger_key
    /\ trigger_key' = k
    /\ UNCHANGED <<monitoring, monitor_option, monitor_thread, color_threshold,
                   protection_blocked, gui, ctl, pc, locals, history, logs>>

\* the user types into threshold_entry (line 259)
EditEntry(e) ==
    /\ Idle
    /\ e # entry
    /\ entry' = e
    /\ UNCHANGED <<code, btn_text, status, pending, ctl, pc, locals, history,
                   logs>>

\* line 78, the scheduled lambda: Tk runs the oldest `after` callback
Tk_After ==
    /\ Idle
    /\ pending # <<>>
    /\ pending' = Tail(pending)
    /\ IF Head(pending).widget = "status"
       THEN /\ status' = [text |-> Head(pending).text, fg |-> Head(pending).fg]
            /\ UNCHANGED btn_text
       ELSE /\ btn_text' = Head(pending).text
            /\ UNCHANGED status
    /\ UNCHANGED <<code, entry, ctl, pc, locals, history, logs>>

\* lines 282-283: the window is closed, stop_monitoring() runs, the process
\* ends and takes its daemon threads with it
MainExit ==
    /\ Idle
    /\ ctl' = [at |-> "exited", by |-> "none"]
    /\ monitoring' = FALSE
    /\ since_stop' = TRUE
    /\ inflight' = {t \in Threads : pc[t] \in InCycle}
    /\ UNCHANGED <<monitor_option, monitor_thread, color_threshold,
                   protection_blocked, trigger_key, gui, pc, locals, fresh,
                   presses, latches, pressed_key, key_at_start, after_halt, logs>>

\* every sampling thread has ended
Quiet == \A t \in Threads : pc[t] \in Dead

----------------------------------------------------------------------------
(* The button, the event loop and the sampling threads, with the settings  *)
(* left as they are at startup.  A click may come at any time, so a new    *)
(* thread can be started while an old one is still in its cycle.           *)

Next ==
    \/ Toggle_Click
    \/ C_Check
    \/ C_Unlatch
    \/ C_Raise
    \/ C_Spawn
    \/ C_Label
    \/ C_Stop
    \/ Tk_After
    \/ MainExit
    \/ \E t \in Threads : T_Load(t)
    \/ \E t \in Threads : T_While(t)
    \/ \E t \in Threads : T_Capture(t)
    \/ \E t \in Threads : T_Match(t)
    \/ \E t \in Threads : T_Crop(t)
    \/ \E t \in Threads : T_Decide(t)
    \/ \E t \in Threads : T_Press(t)
    \/ \E t \in Threads : T_Latch(t)
    \/ \E t \in Threads : T_Halt(t)
    \/ \E t \in Threads : T_Reset(t)
    \/ \E t \in Threads : T_Sleep(t)

Spec == Init /\ [][Next]_vars

(* The same with the user changing the settings at any time, and starting  *)
(* a run only once the thread of the previous run has ended.               *)

Toggle_Serial == (monitoring \/ Quiet) /\ Toggle_Click

NextSettings ==
    \/ Toggle_Serial
    \/ C_Check
    \/ C_Unlatch
    \/ C_Raise
    \/ C_Spawn
    \/ C_Label
    \/ C_Stop
    \/ \E o \in Options : SetOption(o)
    \/ \E k \in Keys : SetTrigger(k)
    \/ \E e \in EntryTexts : EditEntry(e)
    \/ Tk_After
    \/ MainExit
    \/ \E t \in Threads : T_Load(t)
    \/ \E t \in Threads : T_While(t)
    \/ \E t \in Threads : T_Capture(t)
    \/ \E t \in Threads : T_Match(t)
    \/ \E t \in Threads : T_Crop(t)
    \/ \E t \in Threads : T_Decide(t)
    \/ \E t \in Threads : T_Press(t)
    \/ \E t \in Threads : T_Latch(t)
    \/ \E t \in Threads : T_Halt(t)
    \/ \E t \in Threads : T_Reset(t)
    \/ \E t \in Threads : T_Sleep(t)

SpecSettings == Init /\ [][NextSettings]_vars

(* One run, watched: a single click on the button, the settings chosen   *)
(* before it, and no command after it.  The cycles of the run are logged.  *)

Toggle_Once == cmds = 0 /\ Toggle_Click
PreOption(o) == cmds = 0 /\ SetOption(o)
PreTrigger(k) == cmds = 0 /\ SetTrigger(k)
PreEntry(e) == cmds = 0 /\ EditEntry(e)

NextSingleRun ==
    \/ Toggle_Once
    \/ \E o \in Options : PreOption(o)
    \/ \E k \in Keys : PreTrigger(k)
    \/ \E e \in EntryTexts : PreEntry(e)
    \/ C_Check
    \/ C_Unlatch
    \/ C_Raise
    \/ C_Spawn
    \/ C_Label
    \/ Tk_After
    \/ \E t \in Threads : T_Load(t)
    \/ \E t \in Threads : T_While(t)
    \/ \E t \in Threads : T_Capture(t)
    \/ \E t \in Threads : T_Match(t)
    \/ \E t \in Threads : T_Crop(t)
    \/ \E t \in Threads : T_Decide(t)
    \/ \E t \in Threads : T_Press(t)
    \/ \E t \in Threads : T_Latch(t)
    \/ \E t \in Threads : T_Halt(t)
    \/ \E t \in Threads : T_Reset(t)
    \/ \E t \in Threads : T_Sleep(t)

SpecSingleRun == Boot(TRUE) /\ [][NextSingleRun]_vars

(* The control surface called directly: start_monitoring() and             *)
(* stop_monitoring() at any time, a start that takes effect only once the  *)
(* thread of the previous run has ended, and the entry field edited.       *)

Start_Serial == (monitoring \/ Quiet) /\ Start_Call

NextAPI ==
    \/ Start_Serial
    \/ Stop_Call
    \/ C_Check
    \/ C_Unlatch
    \/ C_Raise
    \/ C_Spawn
    \/ C_Stop
    \/ \E e \in EntryTexts : EditEntry(e)
    \/ Tk_After
    \/ \E t \in Threads : T_Load(t)
    \/ \E t \in Threads : T_While(t)
    \/ \E t \in Threads : T_Capture(t)
    \/ \E t \in Threads : T_Match(t)
    \/ \E t \in Threads : T_Crop(t)
    \/ \E t \in Threads : T_Decide(t)
    \/ \E t \in Threads : T_Press(t)
    \/ \E t \in Threads : T_Latch(t)
    \/ \E t \in Threads : T_Halt(t)
    \/ \E t \in Threads : T_Reset(t)
    \/ \E t \in Threads : T_Sleep(t)

SpecAPI == Init /\ [][NextAPI]_vars

(* The button and the entry field: the user types any of the texts before  *)
(* a click, the other settings stay as they are at startup, and a run is   *)
(* started only once the thread of the previous run has ended.             *)

TypeEntry(e) == ~monitoring /\ Quiet /\ EditEntry(e)

NextEntry ==
    \/ Toggle_Serial
    \/ C_Check
    \/ C_Unlatch
    \/ C_Raise
    \/ C_Spawn
    \/ C_Label
    \/ C_Stop
    \/ \E e \in TypedTexts : TypeEntry(e)
    \/ Tk_After
    \/ \E t \in Threads : T_Load(t)
    \/ \E t \in Threads : T_While(t)
    \/ \E t \in Threads : T_Capture(t)
    \/ \E t \in Threads : T_Match(t)
    \/ \E t \in Threads : T_Crop(t)
    \/ \E t \in Threads : T_Decide(t)
    \/ \E t \in Threads : T_Press(t)
    \/ \E t \in Threads : T_Latch(t)
    \/ \E t \in Threads : T_Halt(t)
    \/ \E t \in Threads : T_Reset(t)
    \/ \E t \in Threads : T_Sleep(t)

SpecEntry == Init /\ [][NextEntry]_vars

(* The button, the event loop and the sampling threads under fair          *)
(* scheduling: a thread that can take a step takes it, the handler the     *)
(* main thread is in runs to its end, and the event loop delivers what is  *)
(* queued.                                                                 *)

ThreadStep(t) ==
    \/ T_Load(t)
    \/ T_While(t)
    \/ T_Capture(t)
    \/ T_Match(t)
    \/ T_Crop(t)
    \/ T_Decide(t)
    \/ T_Press(t)
    \/ T_Latch(t)
    \/ T_Halt(t)
    \/ T_Reset(t)
    \/ T_Sleep(t)

Handler == C_Check \/ C_Unlatch \/ C_Raise \/ C_Spawn \/ C_Label \/ C_Stop

Fairness ==
    /\ \A t \in Threads : WF_vars(ThreadStep(t))
    /\ WF_vars(Handler)
    /\ WF_vars(Tk_After)

NextFair ==
    \/ Toggle_Serial
    \/ C_Check
    \/ C_Unlatch
    \/ C_Raise
    \/ C_Spawn
    \/ C_Label
    \/ C_Stop
    \/ Tk_After
    \/ MainExit
    \/ \E t \in Threads : T_Load(t)
    \/ \E t \in Threads : T_While(t)
    \/ \E t \in Threads : T_Capture(t)
    \/ \E t \in Threads : T_Match(t)
    \/ \E t \in Threads : T_Crop(t)
    \/ \E t \in Threads : T_Decide(t)
    \/ \E t \in Threads : T_Press(t)
    \/ \E t \in Threads : T_Latch(t)
    \/ \E t \in Threads : T_Halt(t)
    \/ \E t \in Threads : T_Reset(t)
    \/ \E t \in Threads : T_Sleep(t)

SpecFair == Init /\ [][NextFair]_vars /\ Fairness

----------------------------------------------------------------------------
(* Claims *)

LoopThreads == {t \in Threads : pc[t] \in InLoop}

\* the step of line 167 by thread t
Pressing(t) == pc[t] = "press" /\ pc'[t] = "latch"

\* a press is counted, or the latch goes up
PressOrLatch == presses' > presses \/ (~protection_blocked /\ protection_blocked')

\* what the current cycle of thread t matched, read and measured
InTriggerCycle(t) ==
    /\ Matched(max_val[t])
    /\ ~saw_blocked[t]
    /\ pixel_count[t] * 1000 > TotalPixels
    /\ pixel_count[t] * 100 <= saw_threshold[t] * TotalPixels

\* C1: within one run (from the write of monitoring = True at line 197 to
\* the next one) the trigger key is pressed at most once and
\* protection_blocked is set to True at most once.
OnePressPerRun == presses <= 1 /\ latches <= 1

\* C2: at most one sampling thread is inside the while loop of
\* monitor_function (lines 119-182) at any time.
AtMostOneLoop == Cardinality(LoopThreads) <= 1

\* C3: a key is pressed, and the latch set, only by a thread whose current
\* cycle matched the template (confidence >= 0.7), read the latch as False
\* and measured 0.1 < percent <= threshold.
PressOnlyInTriggerCycle ==
    [][PressOrLatch =>
         \E t \in Threads : /\ pc[t] \in {"press", "latch"}
                            /\ pc'[t] # pc[t]
                            /\ InTriggerCycle(t)]_vars

\* C3, witness: a key was pressed in a cycle whose fill equals the threshold.
PressedAtThreshold ==
    \E t \in Threads : /\ pc[t] = "latch"
                       /\ presses = 1
                       /\ pixel_count[t] * 100 = saw_threshold[t] * TotalPixels

\* C4 as claimed: between a stop() and the next start() no key is pressed.
NoPressAfterStop == [][since_stop => ~\E t \in Threads : Pressing(t)]_vars

\* C4 as amended: between a stop() and the next start() a key is pressed only
\* by a cycle that was in flight when stop() was issued.
PressAfterStopOnlyInFlight ==
    [][\A t \in Threads : since_stop /\ Pressing(t) => t \in inflight]_vars

\* C4, witness: "Monitoring stopped" was shown, after it a cycle in flight
\* dispatched UNPROTECTED, and its thread has pressed the key.
PressedAfterStop ==
    /\ Idle
    /\ since_stop
    /\ status.text = "Monitoring stopped"
    /\ pending = <<StatusOf("trigger")>>
    /\ \E t \in inflight : pc[t] = "latch"

\* the cycles logged so far: fills above the threshold, then one in range
FillsThenTrigger ==
    /\ cmds = 1
    /\ inputs # <<>>
    /\ \A i \in 1..Len(inputs) :
         inputs[i] = IF i < Len(inputs) THEN "protected" ELSE "trigger"

ExpectedStatuses ==
    [i \in 1..Len(inputs) |-> IF i < Len(inputs) THEN "PROTECTED" ELSE "UNPROTECTED"]

\* C5: after a single start() and no other command, a run whose cycles all
\* matched, measured fills above the threshold and then one fill with
\* 0.1 < percent <= threshold dispatched PROTECTED for each earlier cycle and
\* UNPROTECTED for the last, pressed the configured key exactly once, and
\* ends with the latch set, the flag down and the loop left for good.
SingleRunHalts ==
    FillsThenTrigger =>
        LET at == pc[monitor_thread]
        IN /\ outs = ExpectedStatuses
           /\ at \in {"press", "latch", "halt", "reset", "terminated"}
           /\ presses = IF at = "press" THEN 0 ELSE 1
           /\ at # "press" => pressed_key = trigger_key
           /\ at \in {"halt", "reset", "terminated"} => protection_blocked
           /\ at \in {"reset", "terminated"} => ~monitoring

\* C5, witness: two fills above the threshold, then the trigger; the thread
\* has ended.
HaltedAfterThreeCycles ==
    /\ cmds = 1
    /\ inputs = <<"protected", "protected", "trigger">>
    /\ outs = <<"PROTECTED", "PROTECTED", "UNPROTECTED">>
    /\ pc[monitor_thread] = "terminated"
    /\ presses = 1
    /\ protection_blocked
    /\ ~monitoring

\* the first cycle of the thread of a run started from Halted decides, on a
\* match with a fill in range
FirstDecision(t) ==
    /\ after_halt
    /\ fresh
    /\ t = monitor_thread
    /\ pc[t] = "decide"
    /\ pc'[t] # "decide"
    /\ Decision(FALSE, pixel_count[t], color_threshold) = "trigger"

\* C6: when start() follows a halt (latch set, flag down), the first cycle of
\* the new thread that matches and measures 0.1 < percent <= threshold goes
\* on to press the key.
RestartTriggersAgain ==
    [][\A t \in Threads : FirstDecision(t) => pc'[t] = "press"]_vars

\* start_monitoring() returns at line 189; stop_monitoring() ran with the
\* flag already down
NoOpStart == ctl.at = "check" /\ monitoring /\ ctl' # ctl
NoOpStop == ctl.at = "stop" /\ ctl.by = "direct" /\ ~monitoring /\ ctl' # ctl

\* C7: start_monitoring() called while monitoring is True, and
\* stop_monitoring() called while monitoring is False, change no state of
\* the program: no thread is spawned and no global or widget is written.
StartStopIdempotent ==
    [][NoOpStart \/ NoOpStop =>
         ctl' = Return /\ UNCHANGED <<code, gui, pc, locals>>]_vars

\* C7, witness: start_monitoring() is called during a run, with the latch
\* set and an entry that differs from the threshold in use.
StartWhileRunning ==
    /\ ctl = [at |-> "check", by |-> "direct"]
    /\ monitoring
    /\ protection_blocked
    /\ IsIntText(entry)
    /\ IntOf(entry) # color_threshold

\* C8: the controller never observes the latch set while the run flag is
\* still up.
LatchAndStopAtomic == Idle => ~(protection_blocked /\ monitoring)

\* the step at which thread t ends on a failed load or a failed capture
Fatal(t) == pc'[t] \in {"returned", "crashed"} /\ pc[t] # pc'[t]

\* C9: the step at which a sampling thread ends on a template that did not
\* load or a capture that failed ends the run and dispatches a status.
FatalEndsRunAndReports ==
    [][\A t \in Threads :
         Fatal(t) => ~monitoring' /\ Len(pending') > Len(pending)]_vars

\* C10 as claimed: while monitoring is True no step changes trigger_key.
KeyFrozenDuringRun == [][monitoring => trigger_key' = trigger_key]_vars

\* C10 as amended: trigger_key is changed only by the radio buttons'
\* callbacks, at any time, and the key pressed is the value of trigger_key
\* when line 167 runs.
PressesCurrentKey ==
    [][/\ trigger_key' # trigger_key => \E k \in Keys : SetTrigger(k)
       /\ \A t \in Threads : Pressing(t) => pressed_key' = trigger_key]_vars

\* C10, witness: the run began with Esc chosen and F9 was pressed.
PressedKeyChosenDuringRun ==
    /\ presses = 1
    /\ pressed_key = "f9"
    /\ key_at_start = "esc"

\* the texts typed for which Python's int() returns, and what it returns;
\* for the others ("", "x", "1.5", "5 0") it raises ValueError
PythonAccepts ==
    {<<"1", "0">>, <<"5", "0">>, <<" ", "5", "0">>, <<"-", "5">>,
     <<"1", "_", "0">>}

PythonInt(e) ==
    CASE e = <<"1", "0">> -> 10
      [] e = <<"5", "0">> -> 50
      [] e = <<" ", "5", "0">> -> 50
      [] e = <<"-", "5">> -> -5
      [] e = <<"1", "_", "0">> -> 10

\* the controller leaves the line(s) of start_monitoring() it is at
StartStep(place) == ctl.at = place /\ ctl' # ctl

\* C11: start_monitoring() with the flag down and an entry that int() rejects
\* sets color_threshold to 10 and rewrites the entry to "10"; with an entry
\* int() accepts it sets color_threshold to that integer and leaves the entry
\* as it is; either way it goes on to reset the latch, raise the flag and
\* spawn the loop, and nothing else writes the threshold or the entry
\* meanwhile.
StartCoercesEntry ==
    [][/\ StartStep("check") /\ ~monitoring =>
            /\ ctl'.at = "unlatch"
            /\ IF entry \in PythonAccepts
               THEN color_threshold' = PythonInt(entry) /\ entry' = entry
               ELSE color_threshold' = 10 /\ entry' = <<"1", "0">>
       /\ StartStep("unlatch") => ctl'.at = "raise" /\ ~protection_blocked'
       /\ StartStep("raise") => ctl'.at = "spawn" /\ monitoring'
       /\ StartStep("spawn") =>
            /\ pc[monitor_thread'] \in Dead
            /\ pc'[monitor_thread'] = "load"
            /\ monitoring'
            /\ ~protection_blocked'
       /\ ctl.at \in {"unlatch", "raise", "spawn"} =>
            UNCHANGED <<color_threshold, entry>>]_vars

\* C11, witness: after a halt at threshold 50 the user has typed "1.5" and
\* clicked Start.
StartWithUnparsableEntry ==
    /\ ctl.at = "check"
    /\ ~monitoring
    /\ protection_blocked
    /\ color_threshold = 50
    /\ entry = <<"1", ".", "5">>

\* C12: after a stop by the button, once every sampling thread has ended and
\* every pending delivery has been processed, the status shown is
\* "Monitoring stopped".
StoppedStatusStays ==
    Idle /\ since_stop /\ Quiet /\ pending = <<>> =>
        status.text = "Monitoring stopped"

\* C13: in a cycle that has chosen both, the template (lines 126-131) and
\* the colour rule (lines 148-153) are of the same gauge kind.
SameGaugeKind ==
    \A t \in Threads :
        /\ template[t] = "mana" /\ mask[t] # "none" => mask[t] = "blue"
        /\ template[t] = "life" /\ mask[t] # "none" => mask[t] = "red_or_green"

\* thread t begins a cycle: line 119 read True
BeginsCycle(t) == pc[t] = "while" /\ pc'[t] = "capture"

\* C14: after a stop() and until the next start() no sampling thread begins a
\* cycle, and under fair scheduling every sampling thread has ended, unless
\* a start() or the end of the process comes first.
CancelIsBounded ==
    /\ [][since_stop => \A t \in Threads : ~BeginsCycle(t)]_vars
    /\ since_stop ~> (~since_stop \/ ~Running \/ Quiet)

\* C14, witness: the stop came during a cycle that dispatched PROTECTED, and
\* the thread has since left the loop at line 119.
LoopLeftAfterStop ==
    /\ Idle
    /\ since_stop
    /\ ~protection_blocked
    /\ pending = <<>>
    /\ status.text = "PROTECTED"
    /\ pc[monitor_thread] = "terminated"

FlagChanges == monitoring' # monitoring

\* the main thread writes the flag: line 197, or line 204 (also from line 283)
ControllerWrites ==
    /\ ctl' # ctl
    /\ ctl.at \in {"raise", "stop", "idle"}
    /\ monitoring' = (ctl.at = "raise")

\* thread t writes the flag at line 169
HaltsRun(t) == pc[t] = "halt" /\ pc'[t] = "reset" /\ ~monitoring'

Leaves(t, place) == pc[t] = place /\ pc'[t] # place

\* one status is dispatched, after those pending
Dispatches(text, fg) ==
    pending' = Append(pending, [widget |-> "status", text |-> text, fg |-> fg])

\* the cycle of thread t ends without a trigger: the loop goes on to the
\* sleep of line 182 and the run's globals are as they were
GoesOn(t) ==
    /\ pc'[t] = "sleep"
    /\ UNCHANGED <<monitoring, protection_blocked, color_threshold>>

\* C16: with the latch down, a cycle whose localization fails dispatches
\* "Orbs not detected", one that measures percent > threshold dispatches
\* "PROTECTED", one that measures percent <= 0.1 and <= threshold dispatches
\* "Orbs not detected"; each goes on to the sleep and then to the loop test,
\* and none writes monitoring, protection_blocked or color_threshold.
QuietCycleStatus ==
    [][\A t \in Threads :
         /\ Leaves(t, "match") =>
              \/ /\ pc'[t] = "crop"
                 /\ max_val'[t] >= 70
                 /\ UNCHANGED pending
              \/ /\ Dispatches("Orbs not detected", "blue")
                 /\ GoesOn(t)
         /\ /\ Leaves(t, "decide")
            /\ ~protection_blocked
            /\ pixel_count[t] * 100 > color_threshold * TotalPixels
            => Dispatches("PROTECTED", "green") /\ GoesOn(t)
         /\ /\ Leaves(t, "decide")
            /\ ~protection_blocked
            /\ pixel_count[t] * 100 <= color_threshold * TotalPixels
            /\ pixel_count[t] * 1000 <= TotalPixels
            => Dispatches("Orbs not detected", "blue") /\ GoesOn(t)
         /\ Leaves(t, "sleep") => pc'[t] = "while"]_vars

\* C16, witness: in a run restarted after a halt, a cycle dispatched PROTECTED
\* and sleeps.
ProtectedCycleSleeps ==
    /\ monitoring
    /\ ~protection_blocked
    /\ after_halt
    /\ pending = <<[widget |-> "status", text |-> "PROTECTED", fg |-> "green"]>>
    /\ \E t \in Threads : pc[t] = "sleep"

\* C17: color_threshold is written only by start_monitoring() with the flag
\* down (lines 189-193), so it does not change while monitoring stays True,
\* whatever is typed into the entry; and the comparison of lines 162-164 is
\* made against it.
ThresholdFrozenDuringRun ==
    [][/\ color_threshold' # color_threshold =>
            StartStep("check") /\ ~monitoring /\ ~monitoring'
       /\ \A t \in Threads :
            Leaves(t, "decide") /\ ~protection_blocked =>
                /\ pc'[t] = "press" =>
                     /\ pixel_count[t] * 100 <= color_threshold * TotalPixels
                     /\ saw_threshold'[t] = color_threshold
                /\ pc'[t] = "sleep" /\ pixel_count[t] * 1000 > TotalPixels =>
                     pixel_count[t] * 100 > color_threshold * TotalPixels]_vars

\* C17, witness: the run began with threshold 50, the user has typed "10", and
\* a cycle that measured 50 % took the trigger branch.
ThresholdKeptDespiteEntry ==
    /\ monitoring
    /\ color_threshold = 50
    /\ entry = <<"1", "0">>
    /\ \E t \in Threads : pc[t] = "press" /\ pixel_count[t] * 2 = TotalPixels

\* a button-label update is queued, or a thread that lowered the flag at
\* line 169 has not yet queued it at line 170
LabelUpdatePending ==
    \/ \E i \in 1..Len(pending) : pending[i].widget = "button"
    \/ \E t \in Threads : pc[t] = "reset"

\* C18: whenever the main thread is idle and no button-label update is
\* pending, the button reads "Stop" if and only if monitoring is True.
LabelTracksFlag ==
    Idle /\ ~LabelUpdatePending => (btn_text = "Stop" <=> monitoring)

\* C19: with the main thread idle, monitoring True and the thread of the
\* last start scheduled, that thread is alive: it is before or inside its
\* while loop.
FlagImpliesLoopAlive ==
    Idle /\ monitoring /\ monitor_thread # 0 =>
        pc[monitor_thread] \in InLoop \cup {"load"}

====
